---- MODULE Spec2Model ----
(***************************************************************************)
(* A model of scrape_stream.py: main, the channel threads it starts and    *)
(* the scrape_channel loop of each (poll, dedup gate, download to          *)
(* temp.mp3, move to the library path, sleeps and the exception handler),  *)
(* over a small POSIX-like file system; of sanitize_filename applied to    *)
(* bounded strings (SpecSanitize); and of serve_stream.py's request        *)
(* handlers running concurrently over a library the scraper is writing     *)
(* (SpecServer).                                                           *)
(*                                                                         *)
(* Time.  Within one loop iteration every time is measured from the        *)
(* instant of the poll: the descriptor's start_time is -elapsed, end_time  *)
(* is start_time + duration, and clock[t] is the time that has passed      *)
(* since the poll (what datetime.now() returns at line 189).  A sleep is   *)
(* one step that records its length in sleep_secs.                         *)
(***************************************************************************)
EXTENDS Integers, Sequences, FiniteSets, TLC

(* ------------------------------ bounds --------------------------------- *)
\* track ids the upstream catalogue holds: 1..MaxTrack
MaxTrack == 2
\* chunks response.iter_content yields for one asset
NChunks == 2
\* the longest a download is followed, in seconds
MaxClock == 1
\* the largest elapsed time (now - start_time) a poll reports
MaxElapsed == 4
\* polls of the metadata API a run is followed for, all channels together
MaxPolls == 2
\* the two track durations the upstream reports
ShortDuration == 3
LongDuration == 40
\* the longest name sanitize_filename is applied to
MaxLen == 3
\* requests the server handles concurrently
NRequests == 2
\* the largest valid rating a client posts
MaxRating == 2

(* ------------------------- program constants --------------------------- *)
RETRY_SLEEP == 10
NO_ASSET_SLEEP == 5
SKIP_GRACE == 2
SKIP_CAP == 30
END_GRACE == 1
\* serve_stream.py line 431: a rating is 0..5
RATING_LIMIT == 5

(* ----------------------------- upstream -------------------------------- *)
TrackIds == 1..MaxTrack
\* the (duration, elapsed) pairs a poll reports: a track that just started,
\* short or long, and a short one still reported after its end
Timings == {<<ShortDuration, 0>>, <<LongDuration, 0>>, <<ShortDuration, MaxElapsed>>}
\* the keys of GET /channels
UpstreamKeys == {"a", "b"}
\* the channel lists load_channels may return: one key, two keys, a key the
\* upstream does not list, the same key on two lines of favorites.txt
ChannelLists == {<<"a">>, <<"zz">>, <<"a", "b">>, <<"a", "zz">>, <<"a", "a">>}

Letters == <<"x", "y", "z", "w">>
display_artist(id) == <<"a">>
\* ids 2k-1 and 2k carry titles that differ only in a character
\* sanitize_filename removes
display_title(id) ==
    IF id % 2 = 1 THEN <<Letters[(((id + 1) \div 2 - 1) % 4) + 1]>>
    ELSE <<Letters[((id \div 2 - 1) % 4) + 1], "?">>

(* --------------------------- pure functions ---------------------------- *)
\* Forbidden, had the backslash been left out
ForbiddenNoBackslash == {"<", ">", ":", "\"", "/", "|", "?", "*"}

Forbidden == {"<", ">", ":", "\"", "/", "\\", "|", "?", "*"}

sanitize_filename(name) == SelectSeq(name, LAMBDA c : c \notin Forbidden)

track_name(id) == display_artist(id) \o <<" ", "-", " ">> \o display_title(id)

Mp3 == <<".", "m", "p", "3">>

\* a path is <<channel directory, file name>>
OutputPath(channel_key, id) == <<channel_key, sanitize_filename(track_name(id)) \o Mp3>>

TempPath(channel_key) == <<channel_key, <<"t", "e", "m", "p">> \o Mp3>>

Max(a, b) == IF a >= b THEN a ELSE b

Min(a, b) == IF a <= b THEN a ELSE b

\* SkipWaitSecs, had the sleep not been capped
SkipWaitUncapped(duration, elapsed) == Max(0, duration - elapsed) + SKIP_GRACE

\* lines 148-153: the skip-wait sleep
SkipWaitSecs(duration, elapsed) == Min(Max(0, duration - elapsed) + SKIP_GRACE, SKIP_CAP)

(* ----------------------------- file system ----------------------------- *)
\* A file is [path, content, writers]: the path that names it (NoPath once
\* unlinked), its chunks (0 is a hole) and the threads that hold it open.
NoPath == <<>>

FullContent(id) == [i \in 1..NChunks |-> id]

Collect(S) == {f \in S : f.path # NoPath \/ f.writers # {}}

Exists(S, p) == \E f \in S : f.path = p

Unlink(S, p) == Collect({IF f.path = p THEN [f EXCEPT !.path = NoPath] ELSE f : f \in S})

\* open(path, 'wb'): truncate the file the path names, or create it
OpenWB(S, t, p) ==
    IF Exists(S, p)
    THEN {IF f.path = p THEN [f EXCEPT !.content = <<>>, !.writers = @ \cup {t}] ELSE f : f \in S}
    ELSE S \cup {[path |-> p, content |-> <<>>, writers |-> {t}]}

WriteAt(content, off, c) ==
    [i \in 1..Max(Len(content), off + 1) |->
        IF i = off + 1 THEN c ELSE IF i <= Len(content) THEN content[i] ELSE 0]

\* f.write(chunk) at the descriptor's own offset
WriteChunkAt(S, t, off, c) ==
    {IF t \in f.writers THEN [f EXCEPT !.content = WriteAt(@, off, c)] ELSE f : f \in S}

CloseFile(S, t) == Collect({[f EXCEPT !.writers = @ \ {t}] : f \in S})

\* os.rename(src, dst) of an existing src: dst's old file is unlinked
Rename(S, src, dst) ==
    {IF f.path = src THEN [f EXCEPT !.path = dst] ELSE f : f \in Unlink(S, dst)}

(* ------------------------------- state --------------------------------- *)
VARIABLES
    channels,          \* load_channels()
    mainpc,            \* main: "login", "spawn", "wait", "single", "returned", "raised"
    spawned,           \* threads main has started
    pc,                \* each scrape_channel's position
    error,             \* the exception a scrape_channel last raised
    downloaded_ids,
    current_track_id,
    end_time,
    clock,
    sleep_secs,
    pos,               \* chunks written through the open descriptor
    fs,
    polls,             \* polls made so far in the run
    name,              \* sanitize_filename's argument
    safe_name,         \* its result
    calls,             \* applications of sanitize_filename so far
    dur,               \* a descriptor's duration
    since_start,       \* now - start_time at the instant the times are computed
    elapsed_secs,      \* the elapsed the loop computed (line 151)
    left_secs,         \* the time_left the loop computed (lines 152, 190)
    timed,             \* where it computed them: "none", "skip", "capture"
    library,           \* serve_stream's global cache: rel path -> rating
    tags,              \* the RATING tag on disk: path -> rating
    req,               \* the server's request handlers
    escaped            \* what the server did to files outside MP3_DIR

scraper_vars == <<channels, mainpc, spawned, pc, error, downloaded_ids, current_track_id,
                  end_time, clock, sleep_secs, pos, fs, polls>>

timing_vars == <<dur, since_start, elapsed_secs, left_secs, timed>>

pure_vars == <<name, safe_name, calls, timing_vars>>

server_vars == <<library, tags, req, escaped>>

vars == <<scraper_vars, pure_vars, server_vars>>

Threads == 1..Len(channels)

NoTrack == 0

SleepPcs == {"sleep131", "sleep143", "sleep153", "sleep160", "sleep193", "sleep199"}

\* positions inside download_track
DownloadPcs == {"request", "write"}

\* positions inside the while loop
LoopPcs == {"poll", "request", "write", "mark"} \cup SleepPcs

\* the ways a scrape_channel ends: an uncaught exception, the break of line 196,
\* the exit of the process
EndPcs == {"dead", "stopped", "killed"}

\* the library an earlier run may have left: nothing, or track 1 published
\* in the first channel's directory
EarlierLibraries(chs) ==
    IF Len(chs) = 1
    THEN {{}, {[path |-> OutputPath(chs[1], 1), content |-> FullContent(1), writers |-> {}]}}
    ELSE {{}}

\* sanitize_filename has not been called
NoSanitizeCall ==
    /\ name = <<>>
    /\ safe_name = <<>>
    /\ calls = 0

\* no descriptor's times have been computed
NoTimes ==
    /\ dur = 0
    /\ since_start = 0
    /\ elapsed_secs = 0
    /\ left_secs = 0
    /\ timed = "none"

Requests == 1..NRequests

\* a handler thread that has not received its request
IdleRequest ==
    [kind |-> "none", pc |-> "idle", path |-> <<>>, rating |-> 0,
     result |-> <<>>, status |-> 0, body |-> <<>>]

\* serve_stream.py is not running
NoServer ==
    /\ library = <<>>
    /\ tags = <<>>
    /\ req = [r \in Requests |-> IdleRequest]
    /\ escaped = {}

Init ==
    /\ NoSanitizeCall
    /\ NoTimes
    /\ NoServer
    /\ channels \in ChannelLists
    /\ mainpc = "login"
    /\ spawned = 0
    /\ pc = [t \in 1..Len(channels) |-> "unstarted"]
    /\ error = [t \in 1..Len(channels) |-> "none"]
    /\ downloaded_ids = [t \in 1..Len(channels) |-> {}]
    /\ current_track_id = [t \in 1..Len(channels) |-> NoTrack]
    /\ end_time = [t \in 1..Len(channels) |-> 0]
    /\ clock = [t \in 1..Len(channels) |-> 0]
    /\ sleep_secs = [t \in 1..Len(channels) |-> 0]
    /\ pos = [t \in 1..Len(channels) |-> 0]
    /\ fs \in EarlierLibraries(channels)
    /\ polls = 0

(* -------------------------------- main --------------------------------- *)
Alive(t) == pc[t] \notin {"unstarted"} \cup EndPcs

\* Login, had the first scrape_channel been entered before login raised
LoginAfterStart ==
    /\ mainpc = "login"
    /\ \/ /\ mainpc' = "raised"
          /\ pc' = [pc EXCEPT ![1] = "resolve"]
       \/ /\ Len(channels) = 1
          /\ mainpc' = "single"
          /\ pc' = [pc EXCEPT ![1] = "resolve"]
       \/ /\ Len(channels) # 1
          /\ mainpc' = "spawn"
          /\ pc' = pc
    /\ UNCHANGED <<pure_vars, server_vars, channels, spawned, error, downloaded_ids, current_track_id,
                   end_time, clock, sleep_secs, pos, fs, polls>>

\* lines 203-211: load_channels, login, and the single-channel call
Login ==
    /\ mainpc = "login"
    /\ \/ /\ mainpc' = "raised"
          /\ pc' = pc
       \/ /\ Len(channels) = 1
          /\ mainpc' = "single"
          /\ pc' = [pc EXCEPT ![1] = "resolve"]
       \/ /\ Len(channels) # 1
          /\ mainpc' = "spawn"
          /\ pc' = pc
    /\ UNCHANGED <<pure_vars, server_vars, channels, spawned, error, downloaded_ids, current_track_id,
                   end_time, clock, sleep_secs, pos, fs, polls>>

\* lines 214-218: start the next daemon thread
Spawn ==
    /\ mainpc = "spawn"
    /\ spawned < Len(channels)
    /\ spawned' = spawned + 1
    /\ pc' = [pc EXCEPT ![spawned + 1] = "resolve"]
    /\ mainpc' = IF spawned + 1 = Len(channels) THEN "wait" ELSE "spawn"
    /\ UNCHANGED <<pure_vars, server_vars, channels, error, downloaded_ids, current_track_id,
                   end_time, clock, sleep_secs, pos, fs, polls>>

\* lines 220-222: no thread is alive any more
WaitEnds ==
    /\ mainpc = "wait"
    /\ \A t \in Threads : ~Alive(t)
    /\ mainpc' = "returned"
    /\ UNCHANGED <<pure_vars, server_vars, channels, spawned, pc, error, downloaded_ids, current_track_id,
                   end_time, clock, sleep_secs, pos, fs, polls>>

(* --------------------------- scrape_channel ---------------------------- *)
\* the locals of the threads in T are gone with them
Forget(T) ==
    /\ downloaded_ids' = [t \in Threads |-> IF t \in T THEN {} ELSE downloaded_ids[t]]
    /\ current_track_id' = [t \in Threads |-> IF t \in T THEN NoTrack ELSE current_track_id[t]]
    /\ end_time' = [t \in Threads |-> IF t \in T THEN 0 ELSE end_time[t]]
    /\ clock' = [t \in Threads |-> IF t \in T THEN 0 ELSE clock[t]]
    /\ sleep_secs' = [t \in Threads |-> IF t \in T THEN 0 ELSE sleep_secs[t]]
    /\ pos' = [t \in Threads |-> IF t \in T THEN 0 ELSE pos[t]]

\* Uncaught, had every thread's exception reached main
UncaughtEndsRun(t, e) ==
    /\ pc' = [pc EXCEPT ![t] = "dead"]
    /\ error' = [error EXCEPT ![t] = e]
    /\ mainpc' = "raised"

\* an exception no handler catches ends the thread; with one channel the
\* thread is main itself (line 211)
Uncaught(t, e) ==
    /\ pc' = [pc EXCEPT ![t] = "dead"]
    /\ error' = [error EXCEPT ![t] = e]
    /\ mainpc' = IF mainpc = "single" THEN "raised" ELSE mainpc

\* lines 115-123: get_channel_id, outside the loop's try
Resolve ==
    \E t \in Threads :
        /\ pc[t] = "resolve"
        /\ \/ /\ Uncaught(t, "Failed to get channels")
              /\ Forget({t})
           \/ /\ channels[t] \notin UpstreamKeys
              /\ Uncaught(t, "Channel not found")
              /\ Forget({t})
           \/ /\ channels[t] \in UpstreamKeys
              /\ pc' = [pc EXCEPT ![t] = "poll"]
              /\ UNCHANGED <<error, mainpc, downloaded_ids, current_track_id,
                             end_time, clock, sleep_secs, pos>>
        /\ UNCHANGED <<pure_vars, server_vars, channels, spawned, fs, polls>>

\* Handler, had the except clause left the loop
HandlerLeavesLoop(t, e) ==
    /\ pc' = [pc EXCEPT ![t] = "stopped"]
    /\ error' = [error EXCEPT ![t] = e]
    /\ sleep_secs' = [sleep_secs EXCEPT ![t] = 0]
    /\ current_track_id' = [current_track_id EXCEPT ![t] = NoTrack]
    /\ end_time' = [end_time EXCEPT ![t] = 0]
    /\ clock' = [clock EXCEPT ![t] = 0]

\* lines 197-199: except Exception
Handler(t, e) ==
    /\ pc' = [pc EXCEPT ![t] = "sleep199"]
    /\ error' = [error EXCEPT ![t] = e]
    /\ sleep_secs' = [sleep_secs EXCEPT ![t] = RETRY_SLEEP]
    /\ current_track_id' = [current_track_id EXCEPT ![t] = NoTrack]
    /\ end_time' = [end_time EXCEPT ![t] = 0]
    /\ clock' = [clock EXCEPT ![t] = 0]

Sleep(t, line, secs) ==
    /\ pc' = [pc EXCEPT ![t] = line]
    /\ sleep_secs' = [sleep_secs EXCEPT ![t] = secs]

\* AlreadyDownloaded, had the test looked at the track being captured only
AlreadyDownloadedLast(t, id) == id = current_track_id[t]

\* line 147
AlreadyDownloaded(t, id) == id \in downloaded_ids[t]

\* OutputExists, had the test been made on the unsanitized name
OutputExistsRaw(t, id) == Exists(fs, <<channels[t], track_name(id) \o Mp3>>)

\* line 168
OutputExists(t, id) == Exists(fs, OutputPath(channels[t], id))

\* line 125: the loop's next iteration starts with the two metadata calls
PollBegins(t) ==
    /\ pc[t] = "poll"
    /\ polls < MaxPolls
    /\ polls' = polls + 1
    /\ UNCHANGED <<pure_vars, server_vars, channels, mainpc, spawned, pos, fs>>

\* lines 127-129: get_routine or get_currently_playing raises
PollRaises ==
    \E t \in Threads :
        /\ PollBegins(t)
        /\ Handler(t, "Failed to get routine")
        /\ UNCHANGED downloaded_ids

\* lines 130-132: no entry for the channel, or a non-200 currently_playing
PollNoCurrent ==
    \E t \in Threads :
        /\ PollBegins(t)
        /\ current_track_id' = [current_track_id EXCEPT ![t] = NoTrack]
        /\ Sleep(t, "sleep131", RETRY_SLEEP)
        /\ UNCHANGED <<error, downloaded_ids, end_time, clock>>

\* lines 134-144: the routine does not list the current track
PollNotListed ==
    \E t \in Threads, id \in TrackIds :
        /\ PollBegins(t)
        /\ current_track_id' = [current_track_id EXCEPT ![t] = id]
        /\ Sleep(t, "sleep143", RETRY_SLEEP)
        /\ UNCHANGED <<error, downloaded_ids, end_time, clock>>

\* lines 146-154: the current track is in downloaded_ids
PollSkipWait ==
    \E t \in Threads, id \in TrackIds, timing \in Timings :
        /\ PollBegins(t)
        /\ AlreadyDownloaded(t, id)
        /\ current_track_id' = [current_track_id EXCEPT ![t] = id]
        /\ Sleep(t, "sleep153", SkipWaitSecs(timing[1], timing[2]))
        /\ UNCHANGED <<error, downloaded_ids, end_time, clock>>

\* PollNoAssets, had the id been left out of downloaded_ids
PollNoAssetsRetries ==
    \E t \in Threads, id \in TrackIds :
        /\ PollBegins(t)
        /\ ~AlreadyDownloaded(t, id)
        /\ current_track_id' = [current_track_id EXCEPT ![t] = id]
        /\ Sleep(t, "sleep160", NO_ASSET_SLEEP)
        /\ UNCHANGED <<error, downloaded_ids, end_time, clock>>

\* lines 156-161: the current track has no assets
PollNoAssets ==
    \E t \in Threads, id \in TrackIds :
        /\ PollBegins(t)
        /\ ~AlreadyDownloaded(t, id)
        /\ current_track_id' = [current_track_id EXCEPT ![t] = id]
        /\ downloaded_ids' = [downloaded_ids EXCEPT ![t] = @ \cup {id}]
        /\ Sleep(t, "sleep160", NO_ASSET_SLEEP)
        /\ UNCHANGED <<error, end_time, clock>>

\* lines 163-170: the output path exists; continue, with no sleep
PollOutputExists ==
    \E t \in Threads, id \in TrackIds :
        /\ PollBegins(t)
        /\ ~AlreadyDownloaded(t, id)
        /\ OutputExists(t, id)
        /\ current_track_id' = [current_track_id EXCEPT ![t] = id]
        /\ downloaded_ids' = [downloaded_ids EXCEPT ![t] = @ \cup {id}]
        /\ UNCHANGED <<pc, error, sleep_secs, end_time, clock>>

\* PollStartsCapture, had the output path not been tested
PollStartsCaptureUnchecked ==
    \E t \in Threads, id \in TrackIds, timing \in Timings :
        /\ PollBegins(t)
        /\ ~AlreadyDownloaded(t, id)
        /\ current_track_id' = [current_track_id EXCEPT ![t] = id]
        /\ end_time' = [end_time EXCEPT ![t] = timing[1] - timing[2]]
        /\ clock' = [clock EXCEPT ![t] = 0]
        /\ pc' = [pc EXCEPT ![t] = "request"]
        /\ UNCHANGED <<error, downloaded_ids, sleep_secs>>

\* lines 172-180: download_track is called
PollStartsCapture ==
    \E t \in Threads, id \in TrackIds, timing \in Timings :
        /\ PollBegins(t)
        /\ ~AlreadyDownloaded(t, id)
        /\ ~OutputExists(t, id)
        /\ current_track_id' = [current_track_id EXCEPT ![t] = id]
        /\ end_time' = [end_time EXCEPT ![t] = timing[1] - timing[2]]
        /\ clock' = [clock EXCEPT ![t] = 0]
        /\ pc' = [pc EXCEPT ![t] = "request"]
        /\ UNCHANGED <<error, downloaded_ids, sleep_secs>>

\* lines 189-193: wait for the track to end, or go straight back to the poll
AfterCapture(t) ==
    LET time_left == end_time[t] - clock[t] IN
    /\ IF time_left > 0
       THEN Sleep(t, "sleep193", time_left + END_GRACE)
       ELSE /\ pc' = [pc EXCEPT ![t] = "poll"]
            /\ sleep_secs' = sleep_secs
    /\ current_track_id' = [current_track_id EXCEPT ![t] = NoTrack]
    /\ end_time' = [end_time EXCEPT ![t] = 0]
    /\ clock' = [clock EXCEPT ![t] = 0]

\* line 92: requests.get raises
RequestRaises ==
    \E t \in Threads :
        /\ pc[t] = "request"
        /\ Handler(t, "network")
        /\ UNCHANGED <<pure_vars, server_vars, channels, mainpc, spawned, downloaded_ids, pos, fs, polls>>

\* lines 93-95 and 185-193: a non-200 response, download_track returns False
RequestFails ==
    \E t \in Threads :
        /\ pc[t] = "request"
        /\ fs' = IF Exists(fs, TempPath(channels[t])) THEN Unlink(fs, TempPath(channels[t])) ELSE fs
        /\ AfterCapture(t)
        /\ UNCHANGED <<pure_vars, server_vars, channels, mainpc, spawned, error, downloaded_ids, pos, polls>>

\* lines 92-99: a 200 response, open(output_path, 'wb')
RequestOpens ==
    \E t \in Threads :
        /\ pc[t] = "request"
        /\ fs' = OpenWB(fs, t, TempPath(channels[t]))
        /\ pos' = [pos EXCEPT ![t] = 0]
        /\ pc' = [pc EXCEPT ![t] = "write"]
        /\ UNCHANGED <<pure_vars, server_vars, channels, mainpc, spawned, error, downloaded_ids,
                       current_track_id, end_time, clock, sleep_secs, polls>>

\* lines 101-103: one chunk of the asset
WriteChunk ==
    \E t \in Threads :
        /\ pc[t] = "write"
        /\ pos[t] < NChunks
        /\ fs' = WriteChunkAt(fs, t, pos[t], current_track_id[t])
        /\ pos' = [pos EXCEPT ![t] = @ + 1]
        /\ UNCHANGED <<pure_vars, server_vars, channels, mainpc, spawned, pc, error, downloaded_ids,
                       current_track_id, end_time, clock, sleep_secs, polls>>

\* line 101: iter_content raises; the with block closes the file
ChunkError ==
    \E t \in Threads :
        /\ pc[t] = "write"
        /\ fs' = CloseFile(fs, t)
        /\ pos' = [pos EXCEPT ![t] = 0]
        /\ Handler(t, "network")
        /\ UNCHANGED <<pure_vars, server_vars, channels, mainpc, spawned, downloaded_ids, polls>>

\* no call of download_track carries a timeout: time passes while it waits
Stall ==
    \E t \in Threads :
        /\ pc[t] \in DownloadPcs
        /\ clock[t] < MaxClock
        /\ clock' = [clock EXCEPT ![t] = @ + 1]
        /\ UNCHANGED <<pure_vars, server_vars, channels, mainpc, spawned, pc, error, downloaded_ids,
                       current_track_id, end_time, sleep_secs, pos, fs, polls>>

\* shutil.move(src, dst): os.rename, which needs src to exist
CanMove(S, src) == Exists(S, src)

\* lines 99-105 and 181: the chunks are exhausted, the file is closed, True is
\* returned, and shutil.move(temp_path, output_path)
Move ==
    \E t \in Threads :
        /\ pc[t] = "write"
        /\ pos[t] = NChunks
        /\ pos' = [pos EXCEPT ![t] = 0]
        /\ IF CanMove(CloseFile(fs, t), TempPath(channels[t]))
           THEN /\ fs' = Rename(CloseFile(fs, t), TempPath(channels[t]),
                                OutputPath(channels[t], current_track_id[t]))
                /\ pc' = [pc EXCEPT ![t] = "mark"]
                /\ UNCHANGED <<error, sleep_secs, current_track_id, end_time, clock>>
           ELSE /\ Handler(t, "FileNotFoundError")
                /\ fs' = CloseFile(fs, t)
        /\ UNCHANGED <<pure_vars, server_vars, channels, mainpc, spawned, downloaded_ids, polls>>

\* Mark, had the set been replaced by the id just captured
MarkReplaces ==
    \E t \in Threads :
        /\ pc[t] = "mark"
        /\ downloaded_ids' = [downloaded_ids EXCEPT ![t] = {current_track_id[t]}]
        /\ AfterCapture(t)
        /\ UNCHANGED <<pure_vars, server_vars, channels, mainpc, spawned, error, pos, fs, polls>>

\* lines 183, 189-193
Mark ==
    \E t \in Threads :
        /\ pc[t] = "mark"
        /\ downloaded_ids' = [downloaded_ids EXCEPT ![t] = @ \cup {current_track_id[t]}]
        /\ AfterCapture(t)
        /\ UNCHANGED <<pure_vars, server_vars, channels, mainpc, spawned, error, pos, fs, polls>>

\* a time.sleep returns: the loop's next iteration
Wake ==
    \E t \in Threads :
        /\ pc[t] \in SleepPcs
        /\ pc' = [pc EXCEPT ![t] = "poll"]
        /\ sleep_secs' = [sleep_secs EXCEPT ![t] = 0]
        /\ error' = [error EXCEPT ![t] = "none"]
        /\ current_track_id' = [current_track_id EXCEPT ![t] = NoTrack]
        /\ UNCHANGED <<pure_vars, server_vars, channels, mainpc, spawned, downloaded_ids, end_time, clock,
                       pos, fs, polls>>

(* ------------------------------ interrupts ----------------------------- *)
\* KeyboardInterrupt with one channel: scrape_channel runs in the main thread.
\* Inside the try it breaks the loop (lines 195-196); in get_channel_id and in
\* the handler's own sleep (line 199) nothing catches it
InterruptSingle ==
    /\ mainpc = "single"
    /\ \/ /\ pc[1] \in LoopPcs \ {"sleep199"}
          /\ pc' = [pc EXCEPT ![1] = "stopped"]
          /\ mainpc' = "returned"
          /\ error' = error
       \/ /\ pc[1] \in {"resolve", "sleep199"}
          /\ pc' = [pc EXCEPT ![1] = "dead"]
          /\ mainpc' = "raised"
          /\ error' = [error EXCEPT ![1] = "KeyboardInterrupt"]
    /\ fs' = CloseFile(fs, 1)
    /\ Forget({1})
    /\ UNCHANGED <<pure_vars, server_vars, channels, spawned, polls>>

\* KeyboardInterrupt with several channels reaches only main (lines 213-224);
\* main ends, and the process exits under its daemon threads
InterruptMulti ==
    /\ mainpc \in {"spawn", "wait"}
    /\ mainpc' = IF mainpc = "wait" THEN "returned" ELSE "raised"
    /\ pc' = [t \in Threads |-> IF Alive(t) THEN "killed" ELSE pc[t]]
    /\ fs' = {[f EXCEPT !.writers = {}] : f \in {g \in fs : g.path # NoPath}}
    /\ Forget(Threads)
    /\ UNCHANGED <<pure_vars, server_vars, channels, spawned, error, polls>>

Next ==
    \/ Login
    \/ Spawn
    \/ WaitEnds
    \/ InterruptSingle
    \/ InterruptMulti
    \/ Resolve
    \/ PollRaises
    \/ PollNoCurrent
    \/ PollNotListed
    \/ PollSkipWait
    \/ PollNoAssets
    \/ PollOutputExists
    \/ PollStartsCapture
    \/ RequestRaises
    \/ RequestFails
    \/ RequestOpens
    \/ WriteChunk
    \/ ChunkError
    \/ Stall
    \/ Move
    \/ Mark
    \/ Wake

Spec == Init /\ [][Next]_vars

(* ------------------------- sanitize_filename --------------------------- *)
\* the characters of the names: the nine of line 110 and three others
Alphabet == {"<", ">", ":", "\"", "/", "\\", "|", "?", "*", "a", "-", " "}

Names == UNION {[1..n -> Alphabet] : n \in 0..MaxLen}

\* main has not started: one channel, an empty library
ScraperUnstarted ==
    /\ channels = <<"a">>
    /\ mainpc = "login"
    /\ spawned = 0
    /\ pc = <<"unstarted">>
    /\ error = <<"none">>
    /\ downloaded_ids = <<{}>>
    /\ current_track_id = <<NoTrack>>
    /\ end_time = <<0>>
    /\ clock = <<0>>
    /\ sleep_secs = <<0>>
    /\ pos = <<0>>
    /\ fs = {}
    /\ polls = 0

InitSanitize ==
    /\ ScraperUnstarted
    /\ NoServer
    /\ NoTimes
    /\ name \in Names
    /\ safe_name = <<>>
    /\ calls = 0

\* line 165: safe_name = sanitize_filename(track_name)
SanitizeName ==
    /\ calls = 0
    /\ safe_name' = sanitize_filename(name)
    /\ calls' = 1
    /\ UNCHANGED <<scraper_vars, server_vars, timing_vars, name>>

\* sanitize_filename applied to its own result
SanitizeAgain ==
    /\ calls = 1
    /\ safe_name' = sanitize_filename(safe_name)
    /\ calls' = 2
    /\ UNCHANGED <<scraper_vars, server_vars, timing_vars, name>>

NextSanitize ==
    \/ SanitizeName
    \/ SanitizeAgain

SpecSanitize == InitSanitize /\ [][NextSanitize]_vars

(* ------------------------ elapsed and time left ------------------------ *)
\* the durations and the times since start_time a descriptor is read at
Durations == {ShortDuration, LongDuration}

SinceStarts == 0..(LongDuration + MaxElapsed)

InitTiming ==
    /\ ScraperUnstarted
    /\ NoServer
    /\ NoSanitizeCall
    /\ dur \in Durations
    /\ since_start \in SinceStarts
    /\ elapsed_secs = 0
    /\ left_secs = 0
    /\ timed = "none"

\* lines 148-152: elapsed = now - start_time, time_left = max(0, duration - elapsed)
SkipWaitTimes ==
    /\ timed = "none"
    /\ elapsed_secs' = since_start
    /\ left_secs' = Max(0, dur - since_start)
    /\ timed' = "skip"
    /\ UNCHANGED <<scraper_vars, server_vars, name, safe_name, calls, dur, since_start>>

\* lines 172-175 and 189-190: end_time = start_time + duration (start_time is
\* -since_start, now is 0), time_left = end_time - now
CaptureTimes ==
    /\ timed = "none"
    /\ left_secs' = ((0 - since_start) + dur) - 0
    /\ timed' = "capture"
    /\ UNCHANGED <<scraper_vars, server_vars, name, safe_name, calls, dur, since_start,
                   elapsed_secs>>

NextTiming ==
    \/ SkipWaitTimes
    \/ CaptureTimes

SpecTiming == InitTiming /\ [][NextTiming]_vars

(* --------------------------- serve_stream.py --------------------------- *)
\* lines 57-60: the .mp3 files of the channel directories, temp.mp3 left out
ScanPaths(S) == {f.path : f \in {g \in S : g.path # NoPath /\ g.path # TempPath(g.path[1])}}

\* lines 28-35, 62-72: the RATING tag, 0 without one
get_rating(T, p) == IF p \in DOMAIN T THEN T[p] ELSE 0

\* lines 38-86
scan_library(S, T) == [p \in ScanPaths(S) |-> get_rating(T, p)]

\* lines 89-97: the tag is deleted, and added again for a positive rating
set_rating(T, p, rating) ==
    IF rating > 0
    THEN [q \in DOMAIN T \cup {p} |-> IF q = p THEN rating ELSE T[q]]
    ELSE [q \in DOMAIN T \ {p} |-> T[q]]

\* Path.is_file
is_file(S, p) == Exists(S, p)

\* the bytes open(full_path, "rb") reads
ReadFile(S, p) == (CHOOSE f \in S : f.path = p).content

\* The scraper while the server runs: of two channels the first has
\* published track 1 and waits for its end, the second is writing temp.mp3.
MidCapture ==
    /\ channels = <<"a", "b">>
    /\ mainpc = "wait"
    /\ spawned = 2
    /\ pc = <<"sleep193", "write">>
    /\ error = <<"none", "none">>
    /\ downloaded_ids = <<{1}, {}>>
    /\ current_track_id = <<NoTrack, 1>>
    /\ end_time = <<0, LongDuration>>
    /\ clock = <<0, 0>>
    /\ sleep_secs = <<LongDuration + END_GRACE, 0>>
    /\ pos = <<0, 1>>
    /\ fs = {[path |-> OutputPath("a", 1), content |-> FullContent(1), writers |-> {}],
             [path |-> TempPath("b"), content |-> <<1>>, writers |-> {2}]}
    /\ polls = 2

\* the rel paths a client sends: a library file, a temp.mp3, no file
RequestPaths == {OutputPath("a", 1), TempPath("b"), OutputPath("b", 1)}

\* the ratings a client posts
RequestRatings == 0..MaxRating \cup {RATING_LIMIT + 1}

\* lines 500-508: the library is scanned once before the server starts
InitServer ==
    /\ MidCapture
    /\ NoSanitizeCall
    /\ NoTimes
    /\ tags \in {<<>>, [p \in {OutputPath("a", 1)} |-> 1]}
    /\ library = scan_library(fs, tags)
    /\ req = [r \in Requests |-> IdleRequest]
    /\ escaped = {}

Respond(r, kind, status, body) ==
    req' = [req EXCEPT ![r] = [@ EXCEPT !.kind = kind, !.pc = "done",
                                         !.status = status, !.body = body]]

\* line 402, right-hand side: GET /api/tracks scans the directory
GetTracksScan ==
    \E r \in Requests :
        /\ req[r].pc = "idle"
        /\ req' = [req EXCEPT ![r] = [@ EXCEPT !.kind = "tracks", !.pc = "scanned",
                                                !.result = scan_library(fs, tags)]]
        /\ UNCHANGED <<scraper_vars, pure_vars, escaped, library, tags>>

\* lines 402-403: the global is replaced and sent
GetTracksSwap ==
    \E r \in Requests :
        /\ req[r].pc = "scanned"
        /\ library' = req[r].result
        /\ Respond(r, "tracks", 200, req[r].result)
        /\ UNCHANGED <<scraper_vars, pure_vars, escaped, tags>>

\* lines 405-410 and 100-113: GET /api/stream; every track has a positive weight
GetStream ==
    \E r \in Requests :
        /\ req[r].pc = "idle"
        /\ IF DOMAIN library = {}
           THEN Respond(r, "stream", 404, <<>>)
           ELSE \E p \in DOMAIN library : Respond(r, "stream", 200, p)
        /\ UNCHANGED <<scraper_vars, pure_vars, escaped, library, tags>>

\* lines 412-414 and 455-496: GET /mp3/<rel>
GetMp3 ==
    \E r \in Requests, p \in RequestPaths :
        /\ req[r].pc = "idle"
        /\ req' = [req EXCEPT ![r] =
                      [@ EXCEPT !.kind = "mp3", !.pc = "done", !.path = p,
                                !.status = IF is_file(fs, p) THEN 200 ELSE 404,
                                !.body = IF is_file(fs, p) THEN ReadFile(fs, p) ELSE <<>>]]
        /\ UNCHANGED <<scraper_vars, pure_vars, escaped, library, tags>>

\* lines 431-438: POST /api/rate with a rating outside 0..5 or a path that is
\* no file
PostRateInvalid ==
    \E r \in Requests, p \in RequestPaths, rating \in RequestRatings :
        /\ req[r].pc = "idle"
        /\ rating \notin 0..RATING_LIMIT \/ ~is_file(fs, p)
        /\ req' = [req EXCEPT ![r] = [@ EXCEPT !.kind = "rate", !.pc = "done", !.path = p,
                                                !.rating = rating, !.status = 400]]
        /\ UNCHANGED <<scraper_vars, pure_vars, escaped, library, tags>>

\* lines 426-440: the tag is written
PostRateTag ==
    \E r \in Requests, p \in RequestPaths, rating \in RequestRatings :
        /\ req[r].pc = "idle"
        /\ rating \in 0..RATING_LIMIT
        /\ is_file(fs, p)
        /\ tags' = set_rating(tags, p, rating)
        /\ req' = [req EXCEPT ![r] = [@ EXCEPT !.kind = "rate", !.pc = "tagged", !.path = p,
                                                !.rating = rating]]
        /\ UNCHANGED <<scraper_vars, pure_vars, escaped, library>>

\* lines 442-449: the entry of the library the global holds now is updated
PostRateCache ==
    \E r \in Requests :
        /\ req[r].pc = "tagged"
        /\ library' = [p \in DOMAIN library |->
                          IF p = req[r].path THEN req[r].rating ELSE library[p]]
        /\ Respond(r, "rate", 200, <<>>)
        /\ UNCHANGED <<scraper_vars, pure_vars, escaped, tags>>

(* paths outside the library *)
\* An absolute path is a sequence of segments, a segment a sequence of
\* characters.  The library root is /d/m.
MP3_DIR == <<<<"d">>, <<"m">>>>

DotDot == <<".", ".">>

\* the files of the disk outside MP3_DIR: /d/mx/s in a sibling directory whose
\* name starts with the root's, /d/e/s in another one
OutsideFiles == {<<<<"d">>, <<"m", "x">>, <<"s">>>>, <<<<"d">>, <<"e">>, <<"s">>>>}

\* the rel paths with .. segments a client sends
TraversalRels ==
    {<<DotDot, <<"m", "x">>, <<"s">>>>,
     <<DotDot, <<"e">>, <<"s">>>>,
     <<DotDot, <<"m", "x">>, <<"q">>>>,
     <<DotDot, DotDot, <<"d">>, <<"m", "x">>, <<"s">>>>}

RECURSIVE Normalize(_, _)
Normalize(done, rest) ==
    IF rest = <<>> THEN done
    ELSE IF Head(rest) = DotDot
         THEN Normalize(IF done = <<>> THEN <<>> ELSE SubSeq(done, 1, Len(done) - 1), Tail(rest))
         ELSE Normalize(Append(done, Head(rest)), Tail(rest))

\* (MP3_DIR / rel_path).resolve()
resolve_path(rel) == Normalize(<<>>, MP3_DIR \o rel)

\* str(path): "/" before every segment
RECURSIVE PathStr(_)
PathStr(path) == IF path = <<>> THEN <<>> ELSE <<"/">> \o Head(path) \o PathStr(Tail(path))

startswith(a, b) == Len(a) >= Len(b) /\ SubSeq(a, 1, Len(b)) = b

\* lines 436 and 457: the test both handlers make
PathAccepted(full_path) ==
    startswith(PathStr(full_path), PathStr(MP3_DIR)) /\ full_path \in OutsideFiles

\* lines 412-414 and 455-496: GET /mp3/<rel> with .. segments
GetMp3Traversal ==
    \E r \in Requests, rel \in TraversalRels :
        /\ req[r].pc = "idle"
        /\ IF PathAccepted(resolve_path(rel))
           THEN /\ Respond(r, "mp3", 200, <<>>)
                /\ escaped' = escaped \cup {[op |-> "read", file |-> resolve_path(rel)]}
           ELSE /\ Respond(r, "mp3", 404, <<>>)
                /\ escaped' = escaped
        /\ UNCHANGED <<scraper_vars, pure_vars, library, tags>>

\* lines 426-449: POST /api/rate with .. segments; no library entry has this
\* rel path
PostRateTraversal ==
    \E r \in Requests, rel \in TraversalRels :
        /\ req[r].pc = "idle"
        /\ IF PathAccepted(resolve_path(rel))
           THEN /\ Respond(r, "rate", 200, <<>>)
                /\ escaped' = escaped \cup {[op |-> "set_rating", file |-> resolve_path(rel)]}
           ELSE /\ Respond(r, "rate", 400, <<>>)
                /\ escaped' = escaped
        /\ UNCHANGED <<scraper_vars, pure_vars, library, tags>>

NextServer ==
    \/ GetMp3Traversal
    \/ PostRateTraversal
    \/ GetTracksScan
    \/ GetTracksSwap
    \/ GetStream
    \/ GetMp3
    \/ PostRateInvalid
    \/ PostRateTag
    \/ PostRateCache

SpecServer == InitServer /\ [][NextServer]_vars

(* ------------------------------- claims -------------------------------- *)
\* the spec's small_epsilon: a capture is not started with less time left
Epsilon == 5

\* this step is a poll of thread t (every poll moves pc[t] or, at the continue
\* of line 170, adds to downloaded_ids[t])
Polled(t) ==
    /\ pc[t] = "poll"
    /\ polls' = polls + 1
    /\ pc'[t] # "poll" \/ downloaded_ids'[t] # downloaded_ids[t]

\* this step ends a capture of thread t without success: download_track
\* returned False or raised, or the move raised
FailedCapture(t) ==
    /\ pc[t] \in DownloadPcs
    /\ pc'[t] \in {"sleep199", "sleep193", "poll"}

\* the locals of every thread but t are what they were
OthersUntouched(t) ==
    \A u \in Threads \ {t} :
        /\ pc'[u] = pc[u]
        /\ error'[u] = error[u]
        /\ downloaded_ids'[u] = downloaded_ids[u]
        /\ current_track_id'[u] = current_track_id[u]
        /\ end_time'[u] = end_time[u]
        /\ clock'[u] = clock[u]
        /\ sleep_secs'[u] = sleep_secs[u]
        /\ pos'[u] = pos[u]

IsTemp(p) == p # NoPath /\ p = TempPath(p[1])

IsPublished(f) == f.path # NoPath /\ ~IsTemp(f.path)

IsComplete(content) == \E id \in TrackIds : content = FullContent(id)

\* C1: a poll never starts a download for an id that is in downloaded_ids; a
\* poll that finds such an id listed in the routine goes to the skip-wait sleep
\* of line 153.
C1_NoSecondCapture ==
    [][\A t \in Threads :
        /\ (pc[t] = "poll" /\ pc'[t] = "request")
              => current_track_id'[t] \notin downloaded_ids[t]
        /\ (Polled(t) /\ current_track_id'[t] \in downloaded_ids[t] /\ pc'[t] # "sleep143")
              => pc'[t] = "sleep153"]_vars

\* C1 witness: track 2 was downloaded and published in this run, was polled
\* again, and the scheduler is in the skip-wait sleep.
C1_Witness ==
    \E t \in Threads :
        /\ pc[t] = "sleep153"
        /\ current_track_id[t] = 2
        /\ 2 \in downloaded_ids[t]
        /\ \E f \in fs : f.path = OutputPath(channels[t], 2) /\ f.content = FullContent(2)

\* C2: every file at a library path holds the complete content of a track.
C2_PublishAtomic ==
    \A f \in fs : IsPublished(f) => IsComplete(f.content)

\* C3: an exception raised inside the loop leaves the scheduler in the
\* handler's 10 s sleep, changes no other scheduler and not main; from that
\* sleep the scheduler goes back to the poll (unless the run is interrupted).
C3_ExceptionsContained ==
    [][\A t \in Threads :
        /\ (pc[t] \in LoopPcs /\ error[t] = "none" /\ error'[t] # "none")
              => /\ pc'[t] = "sleep199"
                 /\ sleep_secs'[t] = RETRY_SLEEP
                 /\ mainpc' = mainpc
                 /\ OthersUntouched(t)
        /\ (pc[t] = "sleep199" /\ pc'[t] # "sleep199" /\ mainpc' = mainpc)
              => pc'[t] = "poll"]_vars

\* C3 witness: one scheduler sleeps in the handler after a failed download
\* while another is in the middle of its own download.
C3_Witness ==
    \E t \in Threads, u \in Threads :
        /\ t # u
        /\ pc[t] = "sleep199"
        /\ error[t] = "network"
        /\ pc[u] = "write"
        /\ pos[u] > 0

\* C4: no scheduler is ended by a non-success response of a metadata call.
C4_UpstreamNeverFatal ==
    \A t \in Threads : ~(pc[t] = "dead" /\ error[t] = "Failed to get channels")

\* C5: no download is under way for a track that had less than Epsilon
\* seconds left when it was polled.
C5_NoShortCapture ==
    \A t \in Threads : pc[t] \in DownloadPcs => end_time[t] >= Epsilon

\* C6: after a failed capture temp.mp3 does not exist and the id is not in
\* downloaded_ids.
C6_FailureDiscardsTemp ==
    [][\A t \in Threads :
        FailedCapture(t)
            => /\ ~Exists(fs', TempPath(channels[t]))
               /\ current_track_id[t] \notin downloaded_ids'[t]]_vars

\* C7: after a failed capture the scheduler sleeps a positive time before it
\* polls again.
C7_FailureSleeps ==
    [][\A t \in Threads :
        FailedCapture(t) => pc'[t] \in SleepPcs /\ sleep_secs'[t] > 0]_vars

\* C8: a poll that finds the track's output path on disk does not start a
\* download: the id is in downloaded_ids afterwards and no file is changed.
C8_ExistingFileNotDownloaded ==
    [][\A t \in Threads :
        (/\ Polled(t)
         /\ current_track_id'[t] # NoTrack
         /\ pc'[t] # "sleep143"
         /\ Exists(fs, OutputPath(channels[t], current_track_id'[t])))
            => /\ pc'[t] # "request"
               /\ current_track_id'[t] \in downloaded_ids'[t]
               /\ fs' = fs]_vars

\* C8 witness: the first poll of a run found the track's file left by an
\* earlier run: the id is in downloaded_ids, the loop is back at the poll with
\* no sleep, and the library is as the earlier run left it.
C8_Witness ==
    \E t \in Threads :
        /\ pc[t] = "poll"
        /\ polls = 1
        /\ current_track_id[t] = 2
        /\ downloaded_ids[t] = {2}
        /\ fs \in EarlierLibraries(channels)
        /\ fs # {}

\* C9: a download is never under way after the track's end time plus the
\* margin.
C9_CaptureBounded ==
    \A t \in Threads : pc[t] \in DownloadPcs => clock[t] <= end_time[t] + END_GRACE

\* C10: a channel key absent from the channel list ends its scrape_channel
\* before the loop; with several channels main and the other schedulers are
\* untouched, with one channel main raises.
C10_ChannelNotFound ==
    [][\A t \in Threads :
        (error[t] # "Channel not found" /\ error'[t] = "Channel not found")
            => /\ pc[t] = "resolve"
               /\ pc'[t] = "dead"
               /\ OthersUntouched(t)
               /\ mainpc' = IF Len(channels) = 1 THEN "raised" ELSE mainpc]_vars

\* C10 witness: of two channels the second is not in the channel list and its
\* thread is dead, while the first scheduler is downloading and main waits.
C10_Witness ==
    /\ channels = <<"a", "zz">>
    /\ pc[2] = "dead"
    /\ error[2] = "Channel not found"
    /\ pc[1] = "write"
    /\ mainpc = "wait"

\* C11: a failed login makes main raise with no scrape_channel started: no
\* thread has left "unstarted", no poll was made, no file was changed, and
\* nothing happens afterwards.
C11_AuthFailureStartsNothing ==
    [][/\ (mainpc = "login" /\ mainpc' = "raised")
             => /\ spawned' = 0
                /\ \A t \in Threads : pc'[t] = "unstarted"
                /\ polls' = 0
                /\ fs' = fs
       /\ ~(mainpc = "raised" /\ \A t \in Threads : pc[t] = "unstarted")]_vars

\* C11 witness: with one channel, main has raised and scrape_channel was never
\* entered (only a failed login leaves this state).
C11_Witness ==
    /\ Len(channels) = 1
    /\ mainpc = "raised"
    /\ pc[1] = "unstarted"
    /\ polls = 0

\* C12: a stop signal never ends a scheduler in the middle of a capture
\* (inside download_track or between the move and the ledger update).
C12_StopAtPollBoundary ==
    [][\A t \in Threads :
        pc[t] \in DownloadPcs \cup {"mark"} => pc'[t] \notin {"stopped", "killed"}]_vars

\* C13: no file is held open for writing by two schedulers at once.
C13_NoSharedTemp ==
    \A f \in fs : Cardinality(f.writers) <= 1

\* C14: the server's index and its stream picks never hold a temp.mp3, and a
\* GET /mp3 of a temp.mp3 that a capture holds open is answered 404.
C14_TempNeverExposed ==
    /\ \A p \in DOMAIN library : ~IsTemp(p)
    /\ \A r \in Requests :
          req[r].pc = "done" =>
              /\ req[r].kind = "tracks" => \A p \in DOMAIN req[r].body : ~IsTemp(p)
              /\ (req[r].kind = "stream" /\ req[r].status = 200) => ~IsTemp(req[r].body)
              /\ (/\ req[r].kind = "mp3"
                  /\ IsTemp(req[r].path)
                  /\ \E f \in fs : f.path = req[r].path /\ f.writers # {})
                    => req[r].status = 404

\* the characters C15 names
C15_Removed == {"<", ">", ":", "\"", "/", "\\", "|", "?", "*"}

\* the positions of x that hold a character to keep
C15_Kept(x) == {i \in 1..Len(x) : x[i] \notin C15_Removed}

\* the k-th of them
C15_KeptAt(x, k) ==
    CHOOSE i \in C15_Kept(x) : Cardinality({j \in C15_Kept(x) : j <= i}) = k

\* C15: sanitize_filename's result is the argument's characters outside the
\* nine removed ones, all of them and in their order, and a second
\* application changes nothing.
C15_SanitizeExactIdempotent ==
    [][/\ calls = 0
             => /\ Len(safe_name') = Cardinality(C15_Kept(name))
                /\ \A k \in 1..Len(safe_name') : safe_name'[k] = name[C15_KeptAt(name, k)]
       /\ calls = 1 => safe_name' = safe_name]_vars

\* C15 witness: a name with a removed character between two kept ones was
\* sanitized twice.
C15_Witness ==
    /\ calls = 2
    /\ name = <<"a", "?", "-">>
    /\ safe_name = <<"a", "-">>

\* C20: when no request is in flight, the rating the library holds for every
\* track is the rating of the file's tag.
C20_CacheMatchesTags ==
    (\A r \in Requests : req[r].pc \in {"idle", "done"})
        => \A p \in DOMAIN library : library[p] = get_rating(tags, p)

\* C21: the elapsed time and the time left the loop computes for a descriptor
\* add up to its duration, after the track's end too.
C21_ElapsedPlusRemaining ==
    /\ timed = "skip" => elapsed_secs + left_secs = dur
    /\ timed = "capture" => since_start + left_secs = dur

\* no two schedulers work in the same channel directory
C22_NoOtherWriter == \A t \in Threads, u \in Threads : t # u => channels[t] # channels[u]

\* C22: with no other writer in the channel directory, a move of temp.mp3
\* finds its destination absent, every library file stays as it is, and a poll
\* of a new id whose sanitized name is on disk marks the id without a download.
C22_NoOverwrite ==
    [][C22_NoOtherWriter =>
        /\ \A t \in Threads :
              /\ (pc[t] = "write" /\ pc'[t] = "mark")
                    => ~Exists(fs, OutputPath(channels[t], current_track_id[t]))
              /\ (/\ Polled(t)
                  /\ current_track_id'[t] # NoTrack
                  /\ current_track_id'[t] \notin downloaded_ids[t]
                  /\ pc'[t] # "sleep143"
                  /\ Exists(fs, OutputPath(channels[t], current_track_id'[t])))
                    => /\ pc'[t] \notin DownloadPcs
                       /\ current_track_id'[t] \in downloaded_ids'[t]
        /\ \A f \in fs :
              IsPublished(f) => \E g \in fs' : g.path = f.path /\ g.content = f.content]_vars

\* C22 witness: a scheduler captured track 1 and then polled track 2, whose
\* name sanitizes to the same file: both ids are marked, the loop is back at
\* the poll, and the file holds track 1.
C22_Witness ==
    \E t \in Threads :
        /\ C22_NoOtherWriter
        /\ pc[t] = "poll"
        /\ current_track_id[t] = 2
        /\ downloaded_ids[t] = {1, 2}
        /\ OutputPath(channels[t], 2) = OutputPath(channels[t], 1)
        /\ \E f \in fs : f.path = OutputPath(channels[t], 2) /\ f.content = FullContent(1)
        /\ ~Exists(fs, TempPath(channels[t]))

\* C23: the server reads and retags no file outside MP3_DIR, and a request
\* with .. segments that leaves MP3_DIR is answered 404 or 400.
C23_StaysInsideRoot ==
    /\ escaped = {}
    /\ \A r \in Requests :
          (req[r].pc = "done" /\ req[r].kind \in {"mp3", "rate"} /\ req[r].path = NoPath)
              => req[r].status \in {404, 400}

\* C16: when the success path adds an id to downloaded_ids, the track's
\* destination file exists and temp.mp3 does not; a move that fails adds no id
\* and leaves the scheduler in the loop.
C16_MoveThenMark ==
    [][\A t \in Threads :
        /\ (pc[t] = "mark" /\ pc'[t] # "mark" /\ mainpc' = mainpc)
              => /\ current_track_id[t] \in downloaded_ids'[t]
                 /\ Exists(fs', OutputPath(channels[t], current_track_id[t]))
                 /\ ~Exists(fs', TempPath(channels[t]))
        /\ error'[t] = "FileNotFoundError" /\ error[t] # "FileNotFoundError"
              => /\ downloaded_ids'[t] = downloaded_ids[t]
                 /\ pc'[t] = "sleep199"]_vars

\* C17: the skip-wait sleep lasts between SKIP_GRACE and SKIP_CAP seconds,
\* changes nothing, and is followed by a poll.
C17_SkipWaitBounded ==
    [][\A t \in Threads :
        /\ (Polled(t) /\ pc'[t] = "sleep153")
              => /\ sleep_secs'[t] >= SKIP_GRACE
                 /\ sleep_secs'[t] <= SKIP_CAP
                 /\ sleep_secs'[t] \in {SkipWaitSecs(timing[1], timing[2]) : timing \in Timings}
                 /\ downloaded_ids'[t] = downloaded_ids[t]
                 /\ fs' = fs
        /\ (pc[t] = "sleep153" /\ pc'[t] # "sleep153" /\ mainpc' = mainpc)
              => /\ pc'[t] = "poll"
                 /\ downloaded_ids'[t] = downloaded_ids[t]
                 /\ fs' = fs]_vars

\* C17 witness: a skip-wait for a long track sleeps the cap, not the time left.
C17_Witness ==
    \E t \in Threads :
        /\ pc[t] = "sleep153"
        /\ sleep_secs[t] = SKIP_CAP
        /\ current_track_id[t] \in downloaded_ids[t]

\* C18: while a scheduler runs its loop no step takes an id out of
\* downloaded_ids, and the loop is entered with the empty set whatever the
\* library holds.
C18_LedgerGrows ==
    [][\A t \in Threads :
        /\ (pc[t] \in LoopPcs /\ pc'[t] \in LoopPcs)
              => downloaded_ids[t] \subseteq downloaded_ids'[t]
        /\ (pc[t] = "resolve" /\ pc'[t] = "poll") => downloaded_ids'[t] = {}]_vars

\* C18 witness: a scheduler that skipped track 1 for want of assets and then
\* failed to download another track still holds track 1.
C18_Witness ==
    \E t \in Threads :
        /\ pc[t] = "sleep199"
        /\ error[t] = "network"
        /\ downloaded_ids[t] = {1}

\* C19: a poll that finds the track without assets adds the id and sleeps
\* NO_ASSET_SLEEP seconds with no download and no file changed; a later poll
\* that finds such an id (in the set, with no file of its own) listed never
\* starts a download and goes to the skip-wait sleep.
C19_NoAssetsSkippedForGood ==
    [][\A t \in Threads :
        /\ (Polled(t) /\ pc'[t] = "sleep160")
              => /\ current_track_id'[t] \in downloaded_ids'[t]
                 /\ sleep_secs'[t] = NO_ASSET_SLEEP
                 /\ fs' = fs
        /\ (/\ Polled(t)
            /\ current_track_id'[t] \in downloaded_ids[t]
            /\ ~OutputExists(t, current_track_id'[t])
            /\ pc'[t] # "sleep143")
              => pc'[t] = "sleep153" /\ fs' = fs]_vars

\* C19 witness: track 1 was skipped for want of assets, was polled again, and
\* the scheduler is in the skip-wait sleep with no file for the track.
C19_Witness ==
    \E t \in Threads :
        /\ pc[t] = "sleep153"
        /\ current_track_id[t] = 1
        /\ 1 \in downloaded_ids[t]
        /\ ~OutputExists(t, 1)
        /\ polls = 2

====
